---- MODULE Spec2Model ----
(***************************************************************************)
(* A model of main.py of the paper-similarity checker: the bilingual       *)
(* tokenizer preprocess_text with its lru_cache, and the cosine scorer.    *)
(*                                                                         *)
(* Characters are Unicode code points (integers), a text is a sequence of  *)
(* code points, a token is a sequence of code points and a token tuple is  *)
(* a sequence of tokens.                                                   *)
(***************************************************************************)
EXTENDS Integers, Sequences, FiniteSets, TLC

VARIABLES
  pc,       \* where the modelled call stands: "idle"/"call"/"returned"
  text,     \* the argument of the last preprocess_text call
  words,    \* the token tuple it returned
  cache,    \* lru_cache of preprocess_text, least recently used first
  outcome,  \* the wrapper's branch in the last call: "hit"/"miss"/"none"
  hits,     \* cache_info().hits
  misses,   \* cache_info().misses
  freq1,    \* first argument of compute_cosine_similarity
  freq2,    \* second argument
  score,    \* the float it returned
  maxsize,  \* cache_info().maxsize: the capacity the decorator was given
  env,      \* what a run of main() finds: argv, the files, the destination
  proc,     \* a run of main(): its position, its locals, its exit status
  threads,  \* concurrent pipeline invocations, each with its locals
  calls     \* history: the texts of the calls so far, kept under SpecLRU

vars ==
  <<pc, text, words, cache, outcome, hits, misses, freq1, freq2, score,
    maxsize, env, proc, threads, calls>>

\* the variables of main() and of the concurrent invocations
mainVars == <<env, proc, threads>>

\* the call history while it is not kept
NoCalls == <<>>

\* their value while no run of main() and no invocation is modelled
NoRun == <<>>

IdleMain == env = NoRun /\ proc = NoRun /\ threads = NoRun

(***************************************************************************)
(* Bounds of the model.                                                    *)
(***************************************************************************)
\* longest text handed to the tokenizer
MaxLen == 4

(***************************************************************************)
(* Module constants of main.py.                                            *)
(***************************************************************************)
\* STOPWORDS: every member of the frozenset, as code-point sequences.
STOPWORDS ==
  { <<97>>, <<19968>>, <<19978>>, <<19981>>, <<20063>>, <<20102>>, <<20154>>,
    <<20182>>, <<20250>>, <<20320>>, <<21040>>, <<21435>>, <<21644>>,
    <<22312>>, <<22905>>, <<22909>>, <<23427>>, <<23601>>, <<25105>>,
    <<26159>>, <<26377>>, <<30340>>, <<30475>>, <<30528>>, <<35201>>,
    <<35828>>, <<36825>>, <<37027>>, <<37117>>, <<97, 110>>, <<97, 116>>,
    <<98, 101>>, <<98, 121>>, <<100, 111>>, <<105, 110>>, <<105, 115>>,
    <<111, 102>>, <<111, 110>>, <<111, 114>>, <<116, 111>>, <<19968, 20010>>,
    <<19981, 36807>>, <<20160, 20040>>, <<20182, 20204>>, <<20294, 26159>>,
    <<20320, 20204>>, <<21487, 26159>>, <<22240, 20026>>, <<22905, 20204>>,
    <<22914, 26524>>, <<23427, 20204>>, <<24590, 20040>>, <<25105, 20204>>,
    <<25152, 20197>>, <<27809, 26377>>, <<28982, 21518>>, <<33258, 24049>>,
    <<34429, 28982>>, <<36825, 20010>>, <<37027, 20010>>, <<97, 110, 100>>,
    <<97, 114, 101>>, <<98, 117, 116>>, <<100, 105, 100>>, <<102, 111, 114>>,
    <<104, 97, 100>>, <<104, 97, 115>>, <<116, 104, 101>>, <<119, 97, 115>>,
    <<20026, 20160, 20040>>, <<98, 101, 101, 110>>, <<100, 111, 101, 115>>,
    <<104, 97, 118, 101>>, <<119, 101, 114, 101>>, <<119, 105, 116, 104>>,
    <<98, 101, 105, 110, 103>> }

\* PUNCTUATION: string.punctuation, the listed CJK marks, and \n \t \r ' '.
\* (The quote characters inside the literal are ASCII ' and ", so the
\* typographic quotes U+2018..U+201D are not members.)
PUNCTUATION ==
  (33..47) \cup (58..64) \cup (91..96) \cup (123..126)
  \cup {9, 10, 13, 32, 183, 8212, 8230, 12289, 12290}
  \cup (12296..12305) \cup {12308, 12309}
  \cup {65281, 65288, 65289, 65292, 65306, 65307, 65311}

\* The characters str.strip() strips and the regex class \s matches
\* (str.isspace): only 9, 10, 13 and 32 of them are in PUNCTUATION.
WHITESPACE ==
  (9..13) \cup (28..32) \cup {133, 160, 5760} \cup (8192..8202)
  \cup {8232, 8233, 8239, 8287, 12288}

\* [a-zA-Z]
IsLatin(c) == (c \in 65..90) \/ (c \in 97..122)

\* '一' <= c <= '鿿'
IsCJK(c) == 19968 <= c /\ c <= 40959

(***************************************************************************)
(* The inputs of the tokenizer: one or two characters of every class the   *)
(* code tells apart.                                                       *)
(*   78 'N' 110 'n' 111 'o'      Latin ("on" is a stopword, "no" is not)   *)
(*   20013 '中'                  CJK, in no stopword                       *)
(*   25105 '我' 20204 '们'       CJK ("我" and "我们" are stopwords)       *)
(*   65292 '，'                  PUNCTUATION, not whitespace               *)
(*   32 ' '                      PUNCTUATION and whitespace                *)
(*   12288 ideographic space     whitespace, not in PUNCTUATION            *)
(*   49 '1'                      neither removed nor CJK                   *)
(***************************************************************************)
Alphabet == {78, 110, 111, 20013, 25105, 20204, 65292, 32, 12288, 49}

SeqsUpTo(S, n) == UNION { [1..k -> S] : k \in 0..n }

\* 'Python是一种编程语言，very popular。' (test_13_mixed_language)
MixedExample ==
  <<80, 121, 116, 104, 111, 110, 26159, 19968, 31181, 32534, 31243, 35821,
    35328, 65292, 118, 101, 114, 121, 32, 112, 111, 112, 117, 108, 97, 114,
    12290>>

\* '今天是星期天，天气晴，今天晚上我要去看电影。' (test_03, test_11, test_12)
OriginalExample ==
  <<20170, 22825, 26159, 26143, 26399, 22825, 65292, 22825, 27668, 26228,
    65292, 20170, 22825, 26202, 19978, 25105, 35201, 21435, 30475, 30005,
    24433, 12290>>

\* '今天是周天，天气晴朗，我晚上要去看电影。' (test_12's candidate)
PartialExample ==
  <<20170, 22825, 26159, 21608, 22825, 65292, 22825, 27668, 26228, 26391,
    65292, 25105, 26202, 19978, 35201, 21435, 30475, 30005, 24433, 12290>>

\* texts with two ideographs, '中' and '文', and something between them:
\* 'abc', '，', the Kelvin sign U+212A once and twice, and an emoji U+1F600
JoinExamples ==
  { <<20013, 97, 98, 99, 25991>>, <<20013, 65292, 25991>>,
    <<20013, 8490, 25991>>, <<20013, 8490, 8490, 25991>>,
    <<20013, 128512, 25991>> }

ExampleTexts == {MixedExample, OriginalExample, PartialExample} \cup JoinExamples

Texts == SeqsUpTo(Alphabet, MaxLen) \cup ExampleTexts

(***************************************************************************)
(* String helpers of the Python runtime, as preprocess_text uses them.     *)
(***************************************************************************)
NotSpace(c) == c \notin WHITESPACE

\* str.strip(): drop leading and trailing whitespace.
strip(t) ==
  LET keep == { i \in 1..Len(t) : NotSpace(t[i]) }
      lo == CHOOSE i \in keep : \A j \in keep : i <= j
      hi == CHOOSE i \in keep : \A j \in keep : j <= i
  IN IF keep = {} THEN <<>> ELSE SubSeq(t, lo, hi)

NotPunct(c) == c \notin PUNCTUATION

\* str.translate(TRANSLATOR): delete every character of PUNCTUATION.
translate(t) == SelectSeq(t, NotPunct)

\* str.lower() on one character of the texts: an ASCII capital becomes its
\* small letter, the Kelvin sign U+212A becomes 'k'; digits, ideographs,
\* punctuation, spaces and the emoji have no case.
lowerChar(c) ==
  IF c \in 65..90 THEN c + 32
  ELSE IF c = 8490 THEN 107
  ELSE c

\* str.lower()
lower(t) == [i \in 1..Len(t) |-> lowerChar(t[i])]

\* ENGLISH_PATTERN.findall: the leftmost-greedy matches of [a-zA-Z]+, left
\* to right; run is the match under construction.
RECURSIVE findallFrom(_, _, _)
findallFrom(t, i, run) ==
  IF i > Len(t)
  THEN IF run = <<>> THEN <<>> ELSE <<run>>
  ELSE IF IsLatin(t[i])
       THEN findallFrom(t, i + 1, Append(run, t[i]))
       ELSE (IF run = <<>> THEN <<>> ELSE <<run>>)
            \o findallFrom(t, i + 1, <<>>)

ENGLISH_PATTERN_findall(t) == findallFrom(t, 1, <<>>)

NotLatinOrSpace(c) == ~(IsLatin(c) \/ c \in WHITESPACE)

\* a slip: only whitespace is deleted, the letters stay
CHINESE_REMOVAL_PATTERN_sub_spaces(t) == SelectSeq(t, NotSpace)

\* CHINESE_REMOVAL_PATTERN.sub('', t): delete every run of [a-zA-Z\s].
CHINESE_REMOVAL_PATTERN_sub(t) == SelectSeq(t, NotLatinOrSpace)

\* a slip: single letters are kept
KeepEnglish_len1(word) == Len(word) >= 1 /\ word \notin STOPWORDS

\* len(word) >= 2 and word not in STOPWORDS
KeepEnglish(word) == Len(word) >= 2 /\ word \notin STOPWORDS

\* a slip: the stopword test is left out of the comprehension
KeepBigram_nostop(t, i) == IsCJK(t[i]) /\ IsCJK(t[i + 1])

\* a slip: only the first character of the pair is range-checked
KeepBigram_firstonly(t, i) ==
  IsCJK(t[i]) /\ SubSeq(t, i, i + 1) \notin STOPWORDS

\* the condition of the bigram comprehension at index i (1-based)
KeepBigram(t, i) ==
  /\ IsCJK(t[i])
  /\ IsCJK(t[i + 1])
  /\ SubSeq(t, i, i + 1) \notin STOPWORDS

\* [chinese_text[i:i+2] for i in range(chinese_len - 1) if ...], from index i
RECURSIVE bigramsFrom(_, _)
bigramsFrom(t, i) ==
  IF i > Len(t) - 1
  THEN <<>>
  ELSE (IF KeepBigram(t, i) THEN <<SubSeq(t, i, i + 1)>> ELSE <<>>)
       \o bigramsFrom(t, i + 1)

\* a slip: the window advances by its own width instead of by one
RECURSIVE bigramsStride2(_, _)
bigramsStride2(t, i) ==
  IF i > Len(t) - 1
  THEN <<>>
  ELSE (IF KeepBigram(t, i) THEN <<SubSeq(t, i, i + 1)>> ELSE <<>>)
       \o bigramsStride2(t, i + 2)

chinese_bigrams_stride2(t) == bigramsStride2(t, 1)

\* chinese_bigrams: the comprehension over range(chinese_len - 1)
chinese_bigrams(t) == bigramsFrom(t, 1)

\* The body of preprocess_text (preprocess_text.__wrapped__).
preprocess_text(t) ==
  IF strip(t) = <<>>
  THEN <<>>
  ELSE LET cleaned_text == lower(translate(t))
           english_words ==
             SelectSeq(ENGLISH_PATTERN_findall(cleaned_text), KeepEnglish)
           chinese_text == CHINESE_REMOVAL_PATTERN_sub(cleaned_text)
       IN english_words \o chinese_bigrams(chinese_text)

(***************************************************************************)
(* SpecTok: the tokenizer as a pure function.  Init draws the text, the    *)
(* one action applies preprocess_text to it.                               *)
(***************************************************************************)
NoFreq == <<>>
NoScore == [m |-> 0, e |-> 0]

\* @lru_cache(maxsize=128)
MAXSIZE == 128

InitTok ==
  /\ pc = "call"
  /\ text \in Texts
  /\ words = <<>>
  /\ cache = <<>>
  /\ outcome = "none"
  /\ hits = 0
  /\ misses = 0
  /\ freq1 = NoFreq
  /\ freq2 = NoFreq
  /\ score = NoScore
  /\ maxsize = MAXSIZE
  /\ IdleMain
  /\ calls = NoCalls

Tokenize ==
  /\ pc = "call"
  /\ words' = preprocess_text(text)
  /\ pc' = "returned"
  /\ UNCHANGED <<text, cache, outcome, hits, misses, freq1, freq2, score, maxsize, calls>>
  /\ UNCHANGED mainVars

NextTok == Tokenize

SpecTok == InitTok /\ [][NextTok]_vars

(***************************************************************************)
(* Spec: preprocess_text behind @lru_cache.  The cache is a sequence of    *)
(* [key, val] entries, least recently used first.  A call with a cached    *)
(* key returns the stored tuple and makes the entry the most recent; any   *)
(* other call runs the body, stores the result and, in a full cache,       *)
(* drops the least recently used entry.  Under Spec the cache is given the *)
(* capacity CacheSize, so that a few calls fill it; SpecLRU below starts   *)
(* from a cache of the source's capacity, 128.                             *)
(***************************************************************************)
\* capacity of the model's cache
CacheSize == 2

\* calls made in one behaviour (caps the hit and miss counters)
MaxCalls == 4

\* the texts the calls are made with: up to two of 'N', 'o', '中'
CallTexts == SeqsUpTo({78, 111, 20013}, 2)

\* lru_cache's key of a call with one str argument: the string itself
make_key(t) == t

cached(c, k) == \E i \in 1..Len(c) : c[i].key = k

cache_index(c, k) == CHOOSE i \in 1..Len(c) : c[i].key = k

\* a slip: a hit leaves the order alone, so eviction is first in, first out
touch_fifo(c, k) == c

\* a hit: the entry moves to the most recently used end
touch(c, k) ==
  LET i == cache_index(c, k)
  IN SubSeq(c, 1, i - 1) \o SubSeq(c, i + 1, Len(c)) \o <<c[i]>>

\* a slip: the slot of the evicted entry is reused with its old result
insert_stale(c, k, v) ==
  IF Len(c) >= maxsize
  THEN Tail(c) \o <<[key |-> k, val |-> c[1].val]>>
  ELSE Append(c, [key |-> k, val |-> v])

\* a miss: the result is stored as the most recent entry; a full cache
\* first drops its least recently used entry
insert(c, k, v) ==
  IF Len(c) >= maxsize
  THEN Tail(c) \o <<[key |-> k, val |-> v]>>
  ELSE Append(c, [key |-> k, val |-> v])

Init ==
  /\ pc = "idle"
  /\ text = <<>>
  /\ words = <<>>
  /\ cache = <<>>
  /\ outcome = "none"
  /\ hits = 0
  /\ misses = 0
  /\ freq1 = NoFreq
  /\ freq2 = NoFreq
  /\ score = NoScore
  /\ maxsize = CacheSize
  /\ IdleMain
  /\ calls = NoCalls

\* a call that finds t's key: the stored tuple is returned
Hit(t) ==
  /\ cached(cache, make_key(t))
  /\ text' = t
  /\ words' = cache[cache_index(cache, make_key(t))].val
  /\ cache' = touch(cache, make_key(t))
  /\ outcome' = "hit"
  /\ hits' = hits + 1
  /\ pc' = "returned"
  /\ UNCHANGED <<misses, freq1, freq2, score, maxsize>>
  /\ UNCHANGED mainVars

\* preprocess_text(t) with t's key in the cache
CallHit(t) ==
  /\ hits + misses < MaxCalls
  /\ Hit(t)
  /\ UNCHANGED calls

\* a call that does not find t's key: the body runs, the result is stored
Miss(t) ==
  /\ ~cached(cache, make_key(t))
  /\ text' = t
  /\ words' = preprocess_text(t)
  /\ cache' = insert(cache, make_key(t), preprocess_text(t))
  /\ outcome' = "miss"
  /\ misses' = misses + 1
  /\ pc' = "returned"
  /\ UNCHANGED <<hits, freq1, freq2, score, maxsize>>
  /\ UNCHANGED mainVars

\* preprocess_text(t) with t's key not in the cache
CallMiss(t) ==
  /\ hits + misses < MaxCalls
  /\ Miss(t)
  /\ UNCHANGED calls

Next ==
  \/ \E t \in CallTexts : CallHit(t)
  \/ \E t \in CallTexts : CallMiss(t)

Spec == Init /\ [][Next]_vars

(***************************************************************************)
(* Binary floating point.  A Python float is an IEEE-754 double: a         *)
(* mantissa of 53 bits, every operation rounded to nearest, ties to even.  *)
(* The model keeps the format and the rounding and shortens the mantissa   *)
(* to MantBits bits, so that every intermediate fits TLC's integers;       *)
(* MantBits is large enough for four roundings to stay below the half      *)
(* hundredth of a percent that write_result rounds away.  A                *)
(* float is [m, e] with value m * 2^e, m = 0 or 2^(MantBits-1) <= m <      *)
(* 2^MantBits.                                                             *)
(***************************************************************************)
\* bits of mantissa of the model's floats
MantBits == 18

\* largest count stored in a frequency map
MaxCount == 3

RECURSIVE Pow2(_)
Pow2(k) == IF k = 0 THEN 1 ELSE 2 * Pow2(k - 1)

MantLo == Pow2(MantBits - 1)
MantHi == Pow2(MantBits)

Zero == [m |-> 0, e |-> 0]
One == [m |-> MantLo, e |-> 1 - MantBits]

\* q + 1 when the discarded part r (out of unit) is more than half, or is
\* half and q is odd; a carry out of the mantissa renormalises.
RoundEven(q, r, unit, e) ==
  LET up == (2 * r > unit) \/ (2 * r = unit /\ q % 2 = 1)
      q1 == IF up THEN q + 1 ELSE q
  IN IF q1 = MantHi THEN [m |-> MantLo, e |-> e + 1] ELSE [m |-> q1, e |-> e]

\* float(n) of an integer 0 <= n < 2^MantBits: exact.
RECURSIVE ScaleUp(_, _)
ScaleUp(m, e) == IF m >= MantLo THEN [m |-> m, e |-> e] ELSE ScaleUp(2 * m, e - 1)

FromInt(n) == IF n = 0 THEN Zero ELSE ScaleUp(n, 0)

\* x < y on non-negative floats
FLt(x, y) ==
  IF y.m = 0 THEN FALSE
  ELSE IF x.m = 0 THEN TRUE
  ELSE x.e < y.e \/ (x.e = y.e /\ x.m < y.m)

\* x * y, rounded.  The product of the two mantissas is formed in two
\* halves (y = yh * 2^h + yl), so that no intermediate leaves TLC's integer
\* range: p = c * 2^h + bl.
FMul(x, y) ==
  IF x.m = 0 \/ y.m = 0 THEN Zero
  ELSE LET h == MantBits \div 2
           half == Pow2(h)
           a == x.m * (y.m \div half)
           b == x.m * (y.m % half)
           c == a + (b \div half)
           bl == b % half
           sh == IF c >= Pow2(2 * MantBits - 1 - h)
                 THEN MantBits ELSE MantBits - 1
           low == Pow2(sh - h)
       IN RoundEven(c \div low, (c % low) * half + bl, Pow2(sh),
                    x.e + y.e + sh)

\* k more binary digits of a quotient: <<q, r>> with remainder r < d
RECURSIVE DivStep(_, _, _, _)
DivStep(q, r, d, k) ==
  IF k = 0 THEN <<q, r>>
  ELSE IF 2 * r >= d
       THEN DivStep(2 * q + 1, 2 * r - d, d, k - 1)
       ELSE DivStep(2 * q, 2 * r, d, k - 1)

\* x / y, rounded (y # 0): long division of x.m * 2^sh by y.m
FDiv(x, y) ==
  IF x.m = 0 THEN Zero
  ELSE LET sh == IF x.m >= y.m THEN MantBits - 1 ELSE MantBits
           qr == DivStep(x.m \div y.m, x.m % y.m, y.m, sh)
       IN RoundEven(qr[1], qr[2], y.m, x.e - y.e - sh)

\* the largest r in lo..hi with r * r <= n
RECURSIVE IsqrtIn(_, _, _)
IsqrtIn(n, lo, hi) ==
  IF lo = hi THEN lo
  ELSE LET mid == (lo + hi + 1) \div 2
       IN IF mid * mid <= n THEN IsqrtIn(n, mid, hi) ELSE IsqrtIn(n, lo, mid - 1)

\* binary digits of a square root, one per step, until the root fills the
\* mantissa: <<root, rem, k>> with root = isqrt(n * 4^k), rem = n * 4^k - root^2
RECURSIVE SqrtStep(_, _, _)
SqrtStep(root, rem, k) ==
  IF root >= MantLo THEN <<root, rem, k>>
  ELSE IF 4 * rem >= 4 * root + 1
       THEN SqrtStep(2 * root + 1, 4 * rem - (4 * root + 1), k + 1)
       ELSE SqrtStep(2 * root, 4 * rem, k + 1)

\* math.sqrt(n) of an integer 0 <= n < 2^15: correctly rounded.
FSqrt(n) ==
  IF n = 0 THEN Zero
  ELSE LET r0 == IsqrtIn(n, 0, n)
           s == SqrtStep(r0, n - r0 * r0, 0)
       IN \* sqrt(N) > root + 1/2  iff  N - root^2 > root
          RoundEven(s[1], IF s[2] > s[1] THEN 2 ELSE 0, 2, 0 - s[3])

\* min(1.0, x) and max(0.0, x) of Python: the first argument unless the
\* second is smaller (larger)
FMin(x, y) == IF FLt(y, x) THEN y ELSE x
FMax(x, y) == IF FLt(x, y) THEN y ELSE x

(***************************************************************************)
(* Frequency maps.  A Python dict keeps insertion order: a map is a        *)
(* sequence of <<token, count>> pairs with distinct tokens.                *)
(***************************************************************************)
\* the tokens the maps of the scorer's inputs are built from: "no" and '中我'
Vocabulary == { <<110, 111>>, <<20013, 25105>> }

keys(f) == { f[i][1] : i \in 1..Len(f) }

\* freq.get(word, default)
get(f, word, default) ==
  IF word \in keys(f)
  THEN LET i == CHOOSE j \in 1..Len(f) : f[j][1] = word IN f[i][2]
  ELSE default

IsDict(f) == \A i, j \in 1..Len(f) : f[i][1] = f[j][1] => i = j

\* a slip: the map is read as a defaultdict is, freq[word], which stores
\* the default under a key it does not find
after_getitem(f, word) ==
  IF word \in keys(f) THEN f ELSE Append(f, <<word, 0>>)

\* the map after freq.get(word, 0): dict.get stores nothing
after_get(f, word) == f

\* the map after the reads of the loop over all_words
RECURSIVE after_reads(_, _)
after_reads(f, ws) ==
  IF ws = {} THEN f
  ELSE LET w == CHOOSE x \in ws : TRUE
       IN after_reads(after_get(f, w), ws \ {w})

\* the map after freq.keys() and freq.values(): views, nothing stored
after_views(f) == f

FreqMaps ==
  { f \in SeqsUpTo(Vocabulary \X (0..MaxCount), Cardinality(Vocabulary)) :
      IsDict(f) }

\* sum(count ** 2 for count in freq.values()), in the dict's order
RECURSIVE SumSquaresFrom(_, _)
SumSquaresFrom(f, i) ==
  IF i > Len(f) THEN 0 ELSE f[i][2] * f[i][2] + SumSquaresFrom(f, i + 1)

\* a slip: the counts are summed without being squared
RECURSIVE SumFrom(_, _)
SumFrom(f, i) == IF i > Len(f) THEN 0 ELSE f[i][2] + SumFrom(f, i + 1)

sum_squares_nosquare(f) == SumFrom(f, 1)

sum_squares(f) == SumSquaresFrom(f, 1)

\* the loop over all_words: dot_product += freq1.get(word, 0) * freq2.get(word, 0)
RECURSIVE DotOver(_, _, _, _)
DotOver(ws, f, g, default) ==
  IF ws = {} THEN 0
  ELSE LET w == CHOOSE x \in ws : TRUE
       IN get(f, w, default) * get(g, w, default)
          + DotOver(ws \ {w}, f, g, default)

\* a slip: a missing key counts as 1
dot_product_default1(f, g) == DotOver(keys(f) \cup keys(g), f, g, 1)

dot_product(f, g) == DotOver(keys(f) \cup keys(g), f, g, 0)

\* a slip: the square root is left out
magnitude1_nosqrt(f, g) == FromInt(sum_squares(f))

\* magnitude1 = math.sqrt(sum(count ** 2 for count in freq1.values()))
magnitude1(f, g) == FSqrt(sum_squares(f))

\* a slip: the second magnitude is taken from the first map again
magnitude2_of_first(f, g) == FSqrt(sum_squares(f))

\* magnitude2 = math.sqrt(sum(count ** 2 for count in freq2.values()))
magnitude2(f, g) == FSqrt(sum_squares(g))

\* a slip: the result is returned unclamped
clamp_missing(x) == x

\* max(0.0, min(1.0, cosine_sim))
clamp(x) == FMax(Zero, FMin(One, x))

\* magnitude1 == 0 or magnitude2 == 0
guard_zero(m1, m2) == m1.m = 0 \/ m2.m = 0

\* dot_product / (magnitude1 * magnitude2), before the clamp
cosine_sim(f, g) ==
  FDiv(FromInt(dot_product(f, g)), FMul(magnitude1(f, g), magnitude2(f, g)))

\* a slip: two empty maps are taken for identical ones, as the Jaccard
\* metric does
cosine_empty_identical(f, g) ==
  IF Len(f) = 0 /\ Len(g) = 0 THEN One
  ELSE IF Len(f) = 0 \/ Len(g) = 0 THEN Zero
  ELSE IF guard_zero(magnitude1(f, g), magnitude2(f, g)) THEN Zero
  ELSE clamp(cosine_sim(f, g))

compute_cosine_similarity(f, g) ==
  IF Len(f) = 0 \/ Len(g) = 0 THEN Zero
  ELSE IF keys(f) \cup keys(g) = {} THEN Zero
  ELSE IF guard_zero(magnitude1(f, g), magnitude2(f, g)) THEN Zero
  ELSE clamp(cosine_sim(f, g))

\* what compute_cosine_similarity(f, g) leaves of f: untouched by the early
\* return, otherwise read through keys(), get() in the loop, and values()
after_cosine(f, g) ==
  IF Len(f) = 0 \/ Len(g) = 0 THEN f
  ELSE after_views(after_reads(after_views(f), keys(f) \cup keys(g)))

(***************************************************************************)
(* SpecCos: the scorer as a pure function.  Init draws the two maps, the   *)
(* one action applies compute_cosine_similarity to them; score2 of the     *)
(* claims is the call with the arguments exchanged.                        *)
(***************************************************************************)
InitCos ==
  /\ pc = "call"
  /\ text = <<>>
  /\ words = <<>>
  /\ cache = <<>>
  /\ outcome = "none"
  /\ hits = 0
  /\ misses = 0
  /\ freq1 \in FreqMaps
  /\ freq2 \in FreqMaps
  /\ score = NoScore
  /\ maxsize = MAXSIZE
  /\ IdleMain
  /\ calls = NoCalls

Cosine ==
  /\ pc = "call"
  /\ score' = compute_cosine_similarity(freq1, freq2)
  /\ freq1' = after_cosine(freq1, freq2)
  /\ freq2' = after_cosine(freq2, freq1)
  /\ pc' = "returned"
  /\ UNCHANGED <<text, words, cache, outcome, hits, misses, maxsize, calls>>
  /\ UNCHANGED mainVars

NextCos == Cosine

SpecCos == InitCos /\ [][NextCos]_vars

(***************************************************************************)
(* Claims about the memoized tokenizer, checked under Spec.                *)
(***************************************************************************)
\* C6: after any sequence of calls (hits, misses, evictions) the tuple a
\* call returns for text t is the tuple the uncached body computes for t.
C6_MemoTransparent ==
  pc = "returned" => words = preprocess_text(text)

\* C6 witness: after an eviction (more misses than entries) a call was
\* answered from the cache with a non-empty token tuple.
C6_Witness ==
  /\ pc = "returned"
  /\ outcome = "hit"
  /\ misses > Len(cache)
  /\ Len(cache) = CacheSize
  /\ words # <<>>

(***************************************************************************)
(* Claims about the scorer, checked under SpecCos.                         *)
(***************************************************************************)
Scored == pc = "returned"

\* a float of the format: zero, or a normalised mantissa
IsFloat(x) == x.m = 0 \/ (MantLo <= x.m /\ x.m < MantHi)

\* the two maps are the same vector: every token has the same count in both
SameVector(f, g) ==
  \A w \in keys(f) \cup keys(g) : get(f, w, 0) = get(g, w, 0)

\* the two maps are proportional non-zero vectors
Proportional(f, g) ==
  /\ \E w \in keys(f) : get(f, w, 0) > 0
  /\ \E w \in keys(g) : get(g, w, 0) > 0
  /\ \A w, v \in keys(f) \cup keys(g) :
       get(f, w, 0) * get(g, v, 0) = get(f, v, 0) * get(g, w, 0)

\* a frequency vector of the data model: no entry with count zero
NoZeroCount(f) == \A i \in 1..Len(f) : f[i][2] >= 1

\* C1: for all frequency maps A and B the returned score v is a float with
\* 0.0 <= v <= 1.0.
C1_Bounded ==
  Scored => IsFloat(score) /\ ~FLt(score, Zero) /\ ~FLt(One, score)

\* C1 witness: the quotient came out above 1.0 by rounding and the returned
\* score is 1.0.
C1_Witness ==
  /\ Scored
  /\ NoZeroCount(freq1) /\ Len(freq1) > 0 /\ Len(freq2) > 0 /\ NoZeroCount(freq2)
  /\ FLt(One, cosine_sim(freq1, freq2))
  /\ score = One

\* C2: the score of (A, B) equals the score of (B, A).
C2_Symmetric ==
  Scored => score = compute_cosine_similarity(freq2, freq1)

\* C2 witness: two different maps with different key sets and a score
\* strictly between 0 and 1.
C2_Witness ==
  /\ Scored
  /\ keys(freq1) # keys(freq2)
  /\ FLt(Zero, score) /\ FLt(score, One)

\* C3: for a non-empty frequency map A (a frequency vector: no zero-count
\* entry) the score of A against A, its keys in any order, is 1.0 within
\* four units of the last place.
C3_SelfSimilar ==
  (Scored /\ Len(freq1) > 0 /\ NoZeroCount(freq1)
     /\ keys(freq1) = keys(freq2) /\ SameVector(freq1, freq2))
    => \/ score = One
       \/ score.e = 0 - MantBits /\ score.m >= MantHi - 4

\* C3 witness: a two-key map was scored against itself with the keys in the
\* other order.
C3_Witness ==
  /\ Scored
  /\ Len(freq1) = 2 /\ NoZeroCount(freq1) /\ freq1[1][2] # freq1[2][2]
  /\ freq2 = <<freq1[2], freq1[1]>>
  /\ score = One \/ (score.e = 0 - MantBits /\ score.m >= MantHi - 4)

\* C4: the score is exactly 0.0 when A is empty, B is empty, or A and B
\* share no key.
C4_ZeroWhenEmptyOrDisjoint ==
  (Scored /\ (Len(freq1) = 0 \/ Len(freq2) = 0
                \/ keys(freq1) \cap keys(freq2) = {}))
    => score = Zero

\* C4 witness: two non-empty maps with positive counts and no common key
\* scored 0.0.
C4_Witness ==
  /\ Scored
  /\ Len(freq1) > 0 /\ Len(freq2) > 0
  /\ NoZeroCount(freq1) /\ NoZeroCount(freq2)
  /\ keys(freq1) \cap keys(freq2) = {}
  /\ score = Zero

\* C5 as stated: a score of 1.0 only for identical vectors (the same keys
\* with the same counts).
C5_OneOnlyIfIdentical ==
  (Scored /\ score = One) => SameVector(freq1, freq2)

\* C5 as amended: a score of 1.0 only for proportional vectors, as long as
\* the product of the two sums of squares stays 16 times below the
\* mantissa's range, where rounding cannot lift a smaller cosine to 1.0.
C5_OneOnlyIfProportional ==
  (Scored /\ score = One
     /\ 16 * sum_squares(freq1) * sum_squares(freq2) <= MantHi)
    => Proportional(freq1, freq2)

\* C5 witness: proportional vectors that are not identical scored 1.0.
C5_Witness ==
  /\ Scored
  /\ score = One
  /\ NoZeroCount(freq1) /\ NoZeroCount(freq2)
  /\ 16 * sum_squares(freq1) * sum_squares(freq2) <= MantHi
  /\ Proportional(freq1, freq2)
  /\ ~SameVector(freq1, freq2)

(***************************************************************************)
(* Claims about the tokenizer, checked under SpecTok.                      *)
(***************************************************************************)
Returned == pc = "returned"

AllCJK(t) == \A i \in 1..Len(t) : IsCJK(t[i])

NoStopPair(t) ==
  \A i \in 1..(Len(t) - 1) : SubSeq(t, i, i + 1) \notin STOPWORDS

IsCJKPair(w) == Len(w) = 2 /\ IsCJK(w[1]) /\ IsCJK(w[2])

IsLowerRun(w) == Len(w) >= 1 /\ \A i \in 1..Len(w) : w[i] \in 97..122

Tokens(ws) == { ws[k] : k \in 1..Len(ws) }

\* C7: a text of n >= 2 characters, all CJK ideographs, no adjacent pair a
\* stopword, tokenizes to exactly n-1 tokens, the i-th being characters i and
\* i+1; a text with fewer than two CJK characters yields no bigram.
C7_BigramWindow ==
  Returned =>
    /\ (Len(text) >= 2 /\ AllCJK(text) /\ NoStopPair(text))
         => /\ Len(words) = Len(text) - 1
            /\ \A i \in 1..(Len(text) - 1) : words[i] = <<text[i], text[i + 1]>>
    /\ Cardinality({ i \in 1..Len(text) : IsCJK(text[i]) }) < 2
         => \A k \in 1..Len(words) : ~IsCJK(words[k][1])

\* C7 witness: a three-character CJK text without stopword pair was tokenized
\* into its two overlapping bigrams.
C7_Witness ==
  /\ Returned
  /\ Len(text) = 3 /\ AllCJK(text) /\ NoStopPair(text)
  /\ text[1] # text[2] /\ text[2] # text[3]
  /\ words = << <<text[1], text[2]>>, <<text[2], text[3]>> >>

\* C8: no token of the output, English word or Chinese bigram, is a member of
\* STOPWORDS.
C8_NoStopwordToken ==
  Returned => \A k \in 1..Len(words) : words[k] \notin STOPWORDS

\* C8 witness: the text holds the stopword bigram 我们, which was dropped
\* while a neighbouring bigram was kept.
C8_Witness ==
  /\ Returned
  /\ \E i \in 1..(Len(text) - 1) : SubSeq(text, i, i + 1) = <<25105, 20204>>
  /\ \E k \in 1..Len(words) : IsCJKPair(words[k])
  /\ <<25105, 20204>> \notin Tokens(words)

\* C9: every token is a run of lowercase ASCII letters or a pair of two CJK
\* ideographs (no bigram holds a Latin letter or another non-CJK character);
\* 'Python是一种编程语言，very popular。' yields 'python' and '编程'.
C9_TokenShape ==
  Returned =>
    /\ \A k \in 1..Len(words) : IsLowerRun(words[k]) \/ IsCJKPair(words[k])
    /\ text = MixedExample
         => /\ <<112, 121, 116, 104, 111, 110>> \in Tokens(words)
            /\ <<32534, 31243>> \in Tokens(words)

\* C9 witness: the mixed example was tokenized into 'python', 'verypopular'
\* and six bigrams, '编程' among them.
C9_Witness ==
  /\ Returned
  /\ text = MixedExample
  /\ Len(words) = 8
  /\ words[1] = <<112, 121, 116, 104, 111, 110>>
  /\ <<32534, 31243>> \in Tokens(words)

\* The maximal runs of ASCII letters of s, as index pairs <<first, last>>.
LetterRuns(s) ==
  { r \in (1..Len(s)) \X (1..Len(s)) :
      /\ r[1] <= r[2]
      /\ \A k \in r[1]..r[2] : IsLatin(s[k])
      /\ (r[1] = 1 \/ ~IsLatin(s[r[1] - 1]))
      /\ (r[2] = Len(s) \/ ~IsLatin(s[r[2] + 1])) }

\* The runs that count: two letters or more and not a stopword.
KeptRuns(s) ==
  { r \in LetterRuns(s) :
      r[2] - r[1] + 1 >= 2 /\ SubSeq(s, r[1], r[2]) \notin STOPWORDS }

\* The normalized text: PUNCTUATION removed, lowercased.
Normalized(t) ==
  LET kept == SelectSeq(t, NotPunct)
  IN [i \in 1..Len(kept) |-> lowerChar(kept[i])]

IsLatinToken(w) == IsLatin(w[1])

\* C10: the English tokens are exactly, in order of appearance, the maximal
\* letter runs of the normalized text of length >= 2 that are no stopword.
C10_EnglishRuns ==
  Returned =>
    LET s == Normalized(text)
        eng == SelectSeq(words, IsLatinToken)
        kept == KeptRuns(s)
    IN /\ Len(eng) = Cardinality(kept)
       /\ \A r \in kept :
            LET k == Cardinality({ q \in kept : q[1] < r[1] }) + 1
            IN eng[k] = SubSeq(s, r[1], r[2])

\* C10 witness: two letters separated only by a removed space form one run
\* ("n o" gives the token "no"), and a single letter is dropped.
C10_Witness ==
  /\ Returned
  /\ text = <<110, 32, 111, 49>>
  /\ words = << <<110, 111>> >>

(***************************************************************************)
(* calculate_word_frequency: a defaultdict(int) filled by one pass over    *)
(* the tokens and returned as a plain dict.  A dict keeps its keys in      *)
(* insertion order, so the map is the sequence of <<token, count>> pairs   *)
(* in order of first occurrence.                                           *)
(***************************************************************************)
\* the position of word among the entries of f (word is a key of f)
index_of(f, word) == CHOOSE i \in 1..Len(f) : f[i][1] = word

\* a slip: word_freq[word] = 1, the count is set instead of incremented
increment_assign(f, word) ==
  IF word \in keys(f)
  THEN [f EXCEPT ![index_of(f, word)] = <<word, 1>>]
  ELSE Append(f, <<word, 1>>)

\* word_freq[word] += 1 on a defaultdict(int): a missing key starts at 0
increment(f, word) ==
  IF word \in keys(f)
  THEN [f EXCEPT ![index_of(f, word)] = <<word, f[index_of(f, word)][2] + 1>>]
  ELSE Append(f, <<word, 1>>)

\* for word in words: word_freq[word] += 1, from position i on
RECURSIVE count_from(_, _, _)
count_from(f, ws, i) ==
  IF i > Len(ws) THEN f ELSE count_from(increment(f, ws[i]), ws, i + 1)

calculate_word_frequency(ws) == count_from(<<>>, ws, 1)

\* the list after "for word in words": iteration removes nothing
after_iteration(ws) == ws

\* the longest token list SpecFreq draws
MaxTokens == 5

\* the tokens SpecFreq's lists are made of: the Vocabulary and one more
FreqTokens == Vocabulary \cup { <<25105, 20204>> }

TokenLists == SeqsUpTo(FreqTokens, MaxTokens)

(***************************************************************************)
(* SpecFreq: the vectorizer as a pure function.  Init draws the token      *)
(* list, the one action applies calculate_word_frequency to it.  The loop  *)
(* only reads the list: words afterwards is what the iteration leaves.     *)
(***************************************************************************)
InitFreq ==
  /\ pc = "call"
  /\ text = <<>>
  /\ words \in TokenLists
  /\ cache = <<>>
  /\ outcome = "none"
  /\ hits = 0
  /\ misses = 0
  /\ freq1 = NoFreq
  /\ freq2 = NoFreq
  /\ score = NoScore
  /\ maxsize = MAXSIZE
  /\ IdleMain
  /\ calls = NoCalls

Vectorize ==
  /\ pc = "call"
  /\ freq1' = calculate_word_frequency(words)
  /\ words' = after_iteration(words)
  /\ pc' = "returned"
  /\ UNCHANGED <<text, cache, outcome, hits, misses, freq2, score, maxsize, calls>>
  /\ UNCHANGED mainVars

NextFreq == Vectorize

SpecFreq == InitFreq /\ [][NextFreq]_vars

(***************************************************************************)
(* Claims about calculate_word_frequency, checked under SpecFreq.          *)
(***************************************************************************)
\* the number of positions of ws that hold word
Occurrences(ws, word) == Cardinality({ k \in 1..Len(ws) : ws[k] = word })

\* C11: calculate_word_frequency(s) has exactly the distinct tokens of s as
\* its keys, each once, and maps each to its number of occurrences in s:
\* every stored count is >= 1, the counts sum to len(s), and the empty
\* sequence gives the empty mapping.
C11_CountsOccurrences ==
  Returned =>
    /\ keys(freq1) = Tokens(words)
    /\ IsDict(freq1)
    /\ \A i \in 1..Len(freq1) :
         /\ freq1[i][2] = Occurrences(words, freq1[i][1])
         /\ freq1[i][2] >= 1
    /\ SumFrom(freq1, 1) = Len(words)
    /\ (words = <<>> => freq1 = <<>>)

\* a list of five tokens, one of them three times (test_05's shape)
C11_Witness ==
  /\ Returned
  /\ Len(words) = 5
  /\ Len(freq1) = 3
  /\ \E i \in 1..3 : freq1[i][2] = 3

(***************************************************************************)
(* compute_jaccard_similarity: the key sets of the two maps, their         *)
(* intersection and union, and one float division.                         *)
(***************************************************************************)
\* intersection = len(set1.intersection(set2))
intersection(f, g) == Cardinality(keys(f) \cap keys(g))

\* a slip: the first key set is taken for the union
union_of_first(f, g) == Cardinality(keys(f))

\* union = len(set1.union(set2))
union(f, g) == Cardinality(keys(f) \cup keys(g))

compute_jaccard_similarity(f, g) ==
  IF keys(f) = {} /\ keys(g) = {} THEN One
  ELSE IF union(f, g) = 0 THEN Zero
  ELSE FDiv(FromInt(intersection(f, g)), FromInt(union(f, g)))

\* the largest count in the maps SpecJac draws; a key counts whatever its
\* count is, 0 included
MaxKeyCount == 1

JacMaps ==
  { f \in UNION { [1..n -> FreqTokens \X (0..MaxKeyCount)] : n \in 0..3 } :
      IsDict(f) }

(***************************************************************************)
(* SpecJac: the auxiliary metric as a pure function.  Init draws the two   *)
(* maps, the one action applies compute_jaccard_similarity to them.        *)
(***************************************************************************)
InitJac ==
  /\ pc = "call"
  /\ text = <<>>
  /\ words = <<>>
  /\ cache = <<>>
  /\ outcome = "none"
  /\ hits = 0
  /\ misses = 0
  /\ freq1 \in JacMaps
  /\ freq2 \in JacMaps
  /\ score = NoScore
  /\ maxsize = MAXSIZE
  /\ IdleMain
  /\ calls = NoCalls

Jaccard ==
  /\ pc = "call"
  /\ score' = compute_jaccard_similarity(freq1, freq2)
  /\ freq1' = after_views(freq1)
  /\ freq2' = after_views(freq2)
  /\ pc' = "returned"
  /\ UNCHANGED <<text, words, cache, outcome, hits, misses, maxsize, calls>>
  /\ UNCHANGED mainVars

NextJac == Jaccard

SpecJac == InitJac /\ [][NextJac]_vars

(***************************************************************************)
(* Claims about compute_jaccard_similarity, checked under SpecJac.         *)
(***************************************************************************)
\* x is the float nearest to the quotient num / den (den > 0): it is a
\* float, and it lies within half a unit of its last place of num / den
NearestToQuotient(x, num, den) ==
  /\ IsFloat(x)
  /\ IF num = 0 THEN x = Zero
     ELSE /\ x.e <= 0
          /\ 2 * (x.m * den - num * Pow2(0 - x.e)) <= den
          /\ 2 * (num * Pow2(0 - x.e) - x.m * den) <= den

\* C12: compute_jaccard_similarity(A, B) is the float quotient
\* |keys(A) /\ keys(B)| / |keys(A) \/ keys(B)|, is 1.0 when both key sets
\* are empty, lies in [0, 1], and is the same with A and B exchanged.
C12_Jaccard ==
  Scored =>
    /\ IF keys(freq1) = {} /\ keys(freq2) = {}
       THEN score = One
       ELSE NearestToQuotient(score,
                              Cardinality(keys(freq1) \cap keys(freq2)),
                              Cardinality(keys(freq1) \cup keys(freq2)))
    /\ ~FLt(score, Zero)
    /\ ~FLt(One, score)
    /\ compute_jaccard_similarity(freq2, freq1) = score

\* two of three keys shared, one of them with count 0: the quotient 2/3
C12_Witness ==
  /\ Scored
  /\ Cardinality(keys(freq1) \cap keys(freq2)) = 2
  /\ Cardinality(keys(freq1) \cup keys(freq2)) = 3
  /\ Len(freq1) = 2
  /\ \E i \in 1..2 : freq1[i][2] = 0
  /\ score # Zero
  /\ score # One

(***************************************************************************)
(* main(): validate_arguments, two read_file calls, the pipeline, and      *)
(* write_result.  env is what the run finds: the length of sys.argv, the   *)
(* two input files and whether the destination can be written.  A file is  *)
(*   exists   os.path.exists(path)                                         *)
(*   decodes  the encodings whose open(...).read() does not raise          *)
(*            UnicodeDecodeError                                           *)
(*   text     what the first of them returns                               *)
(* proc is the run: its position, the locals of main, the steps it has     *)
(* completed or failed in (trace), and how it left.                        *)
(***************************************************************************)
\* encodings = ['utf-8', 'gbk', 'gb2312', 'utf-16']
encodings == <<"utf-8", "gbk", "gb2312", "utf-16">>

\* for encoding in encodings: try ... return f.read() / except
\* UnicodeDecodeError: continue.  The position of the encoding that reads
\* the file, or 0 when the loop runs out.
RECURSIVE first_decoding(_, _)
first_decoding(file, i) ==
  IF i > Len(encodings) THEN 0
  ELSE IF encodings[i] \in file.decodes THEN i
  ELSE first_decoding(file, i + 1)

\* a slip: an undecodable file is read as the empty text
read_file_lenient(file) ==
  IF ~file.exists THEN [ok |-> FALSE, text |-> <<>>]
  ELSE IF first_decoding(file, 1) = 0 THEN [ok |-> TRUE, text |-> <<>>]
  ELSE [ok |-> TRUE, text |-> file.text]

\* read_file: sys.exit(1) for a missing file; the raise after the loop
\* fails itself (UnicodeDecodeError takes five arguments), and the
\* TypeError is caught by the same except Exception: sys.exit(1)
read_file(file) ==
  IF ~file.exists THEN [ok |-> FALSE, text |-> <<>>]
  ELSE IF first_decoding(file, 1) = 0 THEN [ok |-> FALSE, text |-> <<>>]
  ELSE [ok |-> TRUE, text |-> file.text]

\* validate_arguments: len(args) != 4, then the two os.path.exists checks
validate_arguments(e) ==
  /\ e.argc = 4
  /\ e.original.exists
  /\ e.plagiarized.exists

\* q / d rounded to the nearest integer, a tie to the even one
round_half_even(q, d) ==
  LET n == q \div d
      r == q % d
  IN IF 2 * r > d \/ (2 * r = d /\ n % 2 = 1) THEN n + 1 ELSE n

\* round(similarity * 100, 2) written with f"{...:.2f}": the product is a
\* float, its decimal rounding is exact.  The result in hundredths of a
\* percent, 10000 for "100.00".
similarity_percent(similarity) ==
  LET p == FMul(similarity, FromInt(100))
  IN IF p.m = 0 \/ 0 - p.e > 30 THEN 0
     ELSE round_half_even(p.m * 100, Pow2(0 - p.e))

\* preprocess_text(t) through the cache: the tuple returned ...
cached_call(c, t) ==
  IF cached(c, make_key(t))
  THEN c[cache_index(c, make_key(t))].val
  ELSE preprocess_text(t)

\* ... and the cache afterwards
cache_after_call(c, t) ==
  IF cached(c, make_key(t))
  THEN touch(c, make_key(t))
  ELSE insert(c, make_key(t), preprocess_text(t))

\* list(...): a new list with the tuple's items
list(tuple) == tuple

\* the longest text of a run's input files, the examples apart
MaxPipeLen == 3

\* 'n', '中', '我', '，' and ' '
PipeAlphabet == {110, 20013, 25105, 65292, 32}

PipeTexts == SeqsUpTo(PipeAlphabet, MaxPipeLen)

\* the longest text made of removed characters only
MaxBlankLen == 2

\* '，' (punctuation) and the ideographic space (whitespace)
BlankAlphabet == {65292, 12288}

BlankTexts == SeqsUpTo(BlankAlphabet, MaxBlankLen)

\* the pairs <<original, candidate>> of the runs without a fault
PipePairs ==
  { <<t, t>> : t \in PipeTexts }
  \cup (BlankTexts \X PipeTexts) \cup (PipeTexts \X BlankTexts)
  \cup { <<OriginalExample, OriginalExample>>,
         <<OriginalExample, PartialExample>> }

ReadableFile(t) == [exists |-> TRUE, decodes |-> {"utf-8", "utf-16"}, text |-> t]

\* a file that may be missing, undecodable, or readable only as gbk
FaultFiles ==
  { [exists |-> x, decodes |-> d, text |-> <<20013, 25105>>] :
      x \in BOOLEAN, d \in { {}, {"gbk", "gb2312"}, {"utf-8", "utf-16"} } }

\* len(sys.argv): the script alone, one argument short, right, one too many
Argcs == {1, 3, 4, 5}

Envs ==
  { [argc |-> 4, original |-> ReadableFile(p[1]),
     plagiarized |-> ReadableFile(p[2]), writable |-> TRUE] : p \in PipePairs }
  \cup
  [argc : Argcs, original : FaultFiles, plagiarized : FaultFiles,
   writable : BOOLEAN]

NoResult == 0 - 1

\* the variables a run of main leaves alone
callVars ==
  <<pc, text, words, outcome, freq1, freq2, score, maxsize, threads, calls>>

InitMain ==
  /\ pc = "main"
  /\ text = <<>>
  /\ words = <<>>
  /\ cache = <<>>
  /\ outcome = "none"
  /\ hits = 0
  /\ misses = 0
  /\ freq1 = NoFreq
  /\ freq2 = NoFreq
  /\ score = NoScore
  /\ maxsize = MAXSIZE
  /\ threads = NoRun
  /\ calls = NoCalls
  /\ env \in Envs
  /\ proc = [pc |-> "validate", trace |-> <<>>,
             original_text |-> <<>>, plagiarized_text |-> <<>>,
             original_words |-> <<>>, plagiarized_words |-> <<>>,
             original_freq |-> NoFreq, plagiarized_freq |-> NoFreq,
             cosine_sim |-> NoScore,
             exited |-> FALSE, status |-> 0, writes |-> 0,
             result |-> NoResult]

\* sys.exit(1) in the step named step
exit1(step) ==
  [proc EXCEPT !.pc = "exited", !.trace = Append(@, step),
               !.exited = TRUE, !.status = 1]

\* original_path, plagiarized_path, result_path = validate_arguments(sys.argv)
Validate ==
  /\ proc.pc = "validate"
  /\ proc' = IF validate_arguments(env)
             THEN [proc EXCEPT !.pc = "read_original",
                               !.trace = Append(@, "validate")]
             ELSE exit1("validate")
  /\ UNCHANGED <<env, cache, hits, misses>>
  /\ UNCHANGED callVars

\* original_text = read_file(original_path)
ReadOriginal ==
  /\ proc.pc = "read_original"
  /\ proc' = IF read_file(env.original).ok
             THEN [proc EXCEPT !.pc = "read_plagiarized",
                               !.trace = Append(@, "read_original"),
                               !.original_text = read_file(env.original).text]
             ELSE exit1("read_original")
  /\ UNCHANGED <<env, cache, hits, misses>>
  /\ UNCHANGED callVars

\* plagiarized_text = read_file(plagiarized_path)
ReadPlagiarized ==
  /\ proc.pc = "read_plagiarized"
  /\ proc' = IF read_file(env.plagiarized).ok
             THEN [proc EXCEPT !.pc = "tokenize_original",
                               !.trace = Append(@, "read_plagiarized"),
                               !.plagiarized_text = read_file(env.plagiarized).text]
             ELSE exit1("read_plagiarized")
  /\ UNCHANGED <<env, cache, hits, misses>>
  /\ UNCHANGED callVars

\* original_words = list(preprocess_text(original_text))
TokenizeOriginal ==
  /\ proc.pc = "tokenize_original"
  /\ proc' = [proc EXCEPT !.pc = "tokenize_plagiarized",
                          !.trace = Append(@, "tokenize_original"),
                          !.original_words =
                             list(cached_call(cache, proc.original_text))]
  /\ cache' = cache_after_call(cache, proc.original_text)
  /\ hits' = IF cached(cache, make_key(proc.original_text)) THEN hits + 1 ELSE hits
  /\ misses' = IF cached(cache, make_key(proc.original_text)) THEN misses ELSE misses + 1
  /\ UNCHANGED env
  /\ UNCHANGED callVars

\* plagiarized_words = list(preprocess_text(plagiarized_text))
TokenizePlagiarized ==
  /\ proc.pc = "tokenize_plagiarized"
  /\ proc' = [proc EXCEPT !.pc = "vectorize_original",
                          !.trace = Append(@, "tokenize_plagiarized"),
                          !.plagiarized_words =
                             list(cached_call(cache, proc.plagiarized_text))]
  /\ cache' = cache_after_call(cache, proc.plagiarized_text)
  /\ hits' = IF cached(cache, make_key(proc.plagiarized_text)) THEN hits + 1 ELSE hits
  /\ misses' = IF cached(cache, make_key(proc.plagiarized_text)) THEN misses ELSE misses + 1
  /\ UNCHANGED env
  /\ UNCHANGED callVars

\* original_freq = calculate_word_frequency(original_words)
VectorizeOriginal ==
  /\ proc.pc = "vectorize_original"
  /\ proc' = [proc EXCEPT !.pc = "vectorize_plagiarized",
                          !.trace = Append(@, "vectorize_original"),
                          !.original_freq =
                             calculate_word_frequency(proc.original_words)]
  /\ UNCHANGED <<env, cache, hits, misses>>
  /\ UNCHANGED callVars

\* plagiarized_freq = calculate_word_frequency(plagiarized_words)
VectorizePlagiarized ==
  /\ proc.pc = "vectorize_plagiarized"
  /\ proc' = [proc EXCEPT !.pc = "score",
                          !.trace = Append(@, "vectorize_plagiarized"),
                          !.plagiarized_freq =
                             calculate_word_frequency(proc.plagiarized_words)]
  /\ UNCHANGED <<env, cache, hits, misses>>
  /\ UNCHANGED callVars

\* cosine_sim = compute_cosine_similarity(original_freq, plagiarized_freq)
Score ==
  /\ proc.pc = "score"
  /\ proc' = [proc EXCEPT !.pc = "write",
                          !.trace = Append(@, "score"),
                          !.cosine_sim =
                             compute_cosine_similarity(proc.original_freq,
                                                       proc.plagiarized_freq)]
  /\ UNCHANGED <<env, cache, hits, misses>>
  /\ UNCHANGED callVars

\* write_result(result_path, cosine_sim), then main returns: status 0.
\* Any exception of makedirs, open or write: sys.exit(1).
WriteResult ==
  /\ proc.pc = "write"
  /\ proc' = IF env.writable
             THEN [proc EXCEPT !.pc = "exited",
                               !.trace = Append(@, "write"),
                               !.exited = TRUE, !.status = 0,
                               !.writes = @ + 1,
                               !.result = similarity_percent(proc.cosine_sim)]
             ELSE exit1("write")
  /\ UNCHANGED <<env, cache, hits, misses>>
  /\ UNCHANGED callVars

NextMain ==
  \/ Validate
  \/ ReadOriginal
  \/ ReadPlagiarized
  \/ TokenizeOriginal
  \/ TokenizePlagiarized
  \/ VectorizeOriginal
  \/ VectorizePlagiarized
  \/ Score
  \/ WriteResult

SpecMain == InitMain /\ [][NextMain]_vars

(***************************************************************************)
(* Claims about the pipeline and about main, checked under SpecMain.       *)
(***************************************************************************)
\* the run has completed step, or has left in it
InTrace(step) == \E i \in 1..Len(proc.trace) : proc.trace[i] = step

\* main returned after write_result
Finished == proc.exited /\ proc.status = 0

\* a float below 1.5 in hundredths, rounded as write_result rounds
hundredths(x) ==
  IF x.m = 0 \/ 0 - x.e > 30 THEN 0
  ELSE round_half_even(x.m * 100, Pow2(0 - x.e))

\* C13: with a candidate text identical to the original, and a token
\* sequence that is not empty, the pipeline's score is 1.00 to two decimals
\* and the result written is "100.00"; so it is for the example text.
C13_IdenticalTexts ==
  (/\ env.original.text = env.plagiarized.text
   /\ proc.original_words # <<>>)
  =>
    /\ InTrace("score") => hundredths(proc.cosine_sim) = 100
    /\ Finished => proc.result = 10000

\* the example text as both files: the candidate's tokens come from the
\* cache, and "100.00" is written
C13_Witness ==
  /\ Finished
  /\ env.original.text = OriginalExample
  /\ env.plagiarized.text = OriginalExample
  /\ Len(proc.original_words) = 18
  /\ hits = 1
  /\ misses = 1
  /\ proc.result = 10000

\* 0.5 as a float
Half == [m |-> MantLo, e |-> 0 - MantBits]

\* C14: for the example original and its partly rewritten candidate the
\* score is strictly between 0.50 and 1.00: the squared dot product of the
\* two bigram vectors is strictly between 0.25 and 1 times the product of
\* their squared magnitudes, and the result written is between "50.00" and
\* "100.00", both excluded.
C14_PartialSimilarity ==
  (/\ env.original.text = OriginalExample
   /\ env.plagiarized.text = PartialExample
   /\ InTrace("score"))
  =>
    LET dot == dot_product(proc.original_freq, proc.plagiarized_freq)
        prod == sum_squares(proc.original_freq) * sum_squares(proc.plagiarized_freq)
    IN /\ 4 * dot * dot > prod
       /\ dot * dot < prod
       /\ FLt(Half, proc.cosine_sim)
       /\ FLt(proc.cosine_sim, One)
       /\ Finished => (5000 < proc.result /\ proc.result < 10000)

\* the two example texts: 18 and 16 bigrams, dot product 11, "61.49" written
C14_Witness ==
  /\ Finished
  /\ env.original.text = OriginalExample
  /\ env.plagiarized.text = PartialExample
  /\ Len(proc.original_words) = 18
  /\ Len(proc.plagiarized_words) = 16
  /\ dot_product(proc.original_freq, proc.plagiarized_freq) = 11
  /\ proc.result = 6149

\* the steps of main, in the order of its statements
StepOrder ==
  <<"validate", "read_original", "read_plagiarized", "tokenize_original",
    "tokenize_plagiarized", "vectorize_original", "vectorize_plagiarized",
    "score", "write">>

IsPrefix(s, t) == Len(s) <= Len(t) /\ \A i \in 1..Len(s) : s[i] = t[i]

\* some tried encoding decodes the file
Decodable(file) == \E i \in 1..Len(encodings) : encodings[i] \in file.decodes

\* the faults a run can meet
Fault(e) ==
  \/ e.argc # 4
  \/ ~e.original.exists
  \/ ~e.plagiarized.exists
  \/ ~Decodable(e.original)
  \/ ~Decodable(e.plagiarized)
  \/ ~e.writable

\* C15: the steps of a run of main occur in the order validate, read
\* original, read candidate, tokenize, vectorize, score, write; a run that
\* meets a fault (argument count other than 4, a missing input, an input no
\* tried encoding decodes, an unwritable destination) leaves with a non-zero
\* status in the step that meets it, and no other run does; the result is
\* written at most once and only after both inputs were read; the tokenize,
\* vectorize and score steps never end the run.
C15_MainControlFlow ==
  /\ IsPrefix(proc.trace, StepOrder)
  /\ proc.exited => ((proc.status # 0) <=> Fault(env))
  /\ (proc.exited /\ proc.status # 0) =>
       proc.trace[Len(proc.trace)] \in
         {"validate", "read_original", "read_plagiarized", "write"}
  /\ ~proc.exited =>
       /\ Len(proc.trace) >= 1 =>
            (env.argc = 4 /\ env.original.exists /\ env.plagiarized.exists)
       /\ Len(proc.trace) >= 2 => Decodable(env.original)
       /\ Len(proc.trace) >= 3 => Decodable(env.plagiarized)
  /\ proc.writes <= 1
  /\ proc.writes = 1 =>
       /\ InTrace("read_original")
       /\ InTrace("read_plagiarized")
       /\ proc.original_text = env.original.text
       /\ proc.plagiarized_text = env.plagiarized.text
       /\ Finished
  /\ Finished => proc.writes = 1

\* a candidate that only gbk could decode is read; one that nothing decodes
\* ends the run in its read step, before anything is written
C15_Witness ==
  /\ proc.exited
  /\ proc.status = 1
  /\ proc.trace = <<"validate", "read_original", "read_plagiarized">>
  /\ env.original.decodes = {"gbk", "gb2312"}
  /\ env.plagiarized.decodes = {}
  /\ env.writable
  /\ proc.writes = 0

\* the text is empty or made of whitespace and removed punctuation only
IsBlank(t) == \A i \in 1..Len(t) : t[i] \in WHITESPACE \cup PUNCTUATION

\* C16: preprocess_text returns the empty tuple for a text that is empty or
\* consists only of whitespace and removed punctuation, and the run goes on:
\* the score of such a text against any text is 0.0, the result "0.00".
C16_BlankText ==
  /\ (InTrace("tokenize_original") /\ IsBlank(proc.original_text)) =>
       proc.original_words = <<>>
  /\ (InTrace("tokenize_plagiarized") /\ IsBlank(proc.plagiarized_text)) =>
       proc.plagiarized_words = <<>>
  /\ (InTrace("score")
      /\ (IsBlank(proc.original_text) \/ IsBlank(proc.plagiarized_text))) =>
       /\ proc.cosine_sim = Zero
       /\ ~(proc.exited /\ proc.status # 0)
       /\ Finished => proc.result = 0

\* an original of one comma and one ideographic space against a candidate
\* with a token
C16_Witness ==
  /\ Finished
  /\ proc.original_text = <<65292, 12288>>
  /\ proc.original_words = <<>>
  /\ proc.plagiarized_words # <<>>
  /\ proc.cosine_sim = Zero
  /\ proc.result = 0

(***************************************************************************)
(* The single-character stopwords, checked under SpecTok.                  *)
(***************************************************************************)
\* the token holds a character that is a stopword by itself
HasSingleStopword(w) == \E i \in 1..Len(w) : <<w[i]>> \in STOPWORDS

\* C18: the tokens of the example text include '今天' and '星期', and the
\* stopword '是' appears in none of its tokens; in general no bigram of the
\* output holds a single-character stopword.
C18_SingleStopwordFiltered ==
  Returned =>
    /\ text = OriginalExample =>
         /\ <<20170, 22825>> \in Tokens(words)
         /\ <<26143, 26399>> \in Tokens(words)
         /\ \A k \in 1..Len(words) : \A i \in 1..Len(words[k]) :
              words[k][i] # 26159
    /\ \A k \in 1..Len(words) :
         IsCJKPair(words[k]) => ~HasSingleStopword(words[k])

(***************************************************************************)
(* SpecConc: pipeline invocations in threads of one process, sharing the   *)
(* tokenizer's cache.  The wrapper of lru_cache looks the key up (a hit     *)
(* returns the stored tuple and makes the entry the most recent), calls    *)
(* the function on a miss, and afterwards stores the result unless the key *)
(* was added in the meantime.  The lookup and the store each run without   *)
(* interruption; the call of the function in between does not, so other    *)
(* threads' lookups and stores fall between a miss and its store.  The     *)
(* rest of an invocation works on its own locals.                          *)
(***************************************************************************)
\* the number of concurrent invocations
NThreads == 2

\* '中我', '我中' and 'no': three texts with three different tokenizations
ConcTexts == { <<20013, 25105>>, <<25105, 20013>>, <<110, 111>> }

\* the input pairs of the invocations: some share a text, some share none
ConcPairs ==
  { << <<20013, 25105>>, <<25105, 20013>> >>,
    << <<25105, 20013>>, <<110, 111>> >>,
    << <<110, 111>>, <<20013, 25105>> >>,
    << <<20013, 25105>>, <<20013, 25105>> >> }

\* a slip: the result is stored without looking whether the key was added
\* during the call
store_unchecked(c, k, v) == insert(c, k, v)

\* after the call: "this same key was added to the cache during the call"
\* leaves the cache as it is; otherwise the result is inserted
store(c, k, v) == IF cached(c, k) THEN c ELSE insert(c, k, v)

\* the text a thread is tokenizing
current_text(th) ==
  IF th.pc \in {"lookup_original", "call_original", "store_original"}
  THEN th.original_text ELSE th.plagiarized_text

InitConc ==
  /\ pc = "threads"
  /\ text = <<>>
  /\ words = <<>>
  /\ cache = <<>>
  /\ outcome = "none"
  /\ hits = 0
  /\ misses = 0
  /\ freq1 = NoFreq
  /\ freq2 = NoFreq
  /\ score = NoScore
  /\ maxsize = CacheSize
  /\ env = NoRun
  /\ proc = NoRun
  /\ calls = NoCalls
  /\ threads \in
       [1..NThreads ->
          { [pc |-> "lookup_original",
             original_text |-> p[1], plagiarized_text |-> p[2],
             original_words |-> <<>>, plagiarized_words |-> <<>>,
             result |-> <<>>, cosine_sim |-> NoScore] : p \in ConcPairs }]

\* the variables the threads leave alone
concVars ==
  <<pc, text, words, outcome, freq1, freq2, score, maxsize, env, proc, calls>>

\* the wrapper finds the key: the entry's tuple is returned
LookupHit(i) ==
  LET th == threads[i]
      t == current_text(th)
  IN /\ th.pc \in {"lookup_original", "lookup_plagiarized"}
     /\ cached(cache, make_key(t))
     /\ threads' =
          [threads EXCEPT ![i] =
             IF th.pc = "lookup_original"
             THEN [th EXCEPT !.pc = "lookup_plagiarized",
                             !.original_words =
                                list(cache[cache_index(cache, make_key(t))].val)]
             ELSE [th EXCEPT !.pc = "score",
                             !.plagiarized_words =
                                list(cache[cache_index(cache, make_key(t))].val)]]
     /\ cache' = touch(cache, make_key(t))
     /\ hits' = hits + 1
     /\ UNCHANGED misses
     /\ UNCHANGED concVars

\* the wrapper does not find the key: the function will be called
LookupMiss(i) ==
  LET th == threads[i]
      t == current_text(th)
  IN /\ th.pc \in {"lookup_original", "lookup_plagiarized"}
     /\ ~cached(cache, make_key(t))
     /\ threads' =
          [threads EXCEPT ![i] =
             [th EXCEPT !.pc = IF th.pc = "lookup_original"
                               THEN "call_original" ELSE "call_plagiarized"]]
     /\ misses' = misses + 1
     /\ UNCHANGED <<cache, hits>>
     /\ UNCHANGED concVars

\* the call of the function itself, on the thread's own text
CallBody(i) ==
  LET th == threads[i]
  IN /\ th.pc \in {"call_original", "call_plagiarized"}
     /\ threads' =
          [threads EXCEPT ![i] =
             [th EXCEPT !.pc = IF th.pc = "call_original"
                               THEN "store_original" ELSE "store_plagiarized",
                        !.result = preprocess_text(current_text(th))]]
     /\ UNCHANGED <<cache, hits, misses>>
     /\ UNCHANGED concVars

\* back in the wrapper: the result is stored and returned
Store(i) ==
  LET th == threads[i]
  IN /\ th.pc \in {"store_original", "store_plagiarized"}
     /\ cache' = store(cache, make_key(current_text(th)), th.result)
     /\ threads' =
          [threads EXCEPT ![i] =
             IF th.pc = "store_original"
             THEN [th EXCEPT !.pc = "lookup_plagiarized",
                             !.original_words = list(th.result)]
             ELSE [th EXCEPT !.pc = "score",
                             !.plagiarized_words = list(th.result)]]
     /\ UNCHANGED <<hits, misses>>
     /\ UNCHANGED concVars

\* calculate_word_frequency twice and compute_cosine_similarity, on locals
ScoreLocal(i) ==
  LET th == threads[i]
  IN /\ th.pc = "score"
     /\ threads' =
          [threads EXCEPT ![i] =
             [th EXCEPT !.pc = "done",
                        !.cosine_sim =
                           compute_cosine_similarity(
                             calculate_word_frequency(th.original_words),
                             calculate_word_frequency(th.plagiarized_words))]]
     /\ UNCHANGED <<cache, hits, misses>>
     /\ UNCHANGED concVars

NextConc ==
  \/ \E i \in 1..NThreads : LookupHit(i)
  \/ \E i \in 1..NThreads : LookupMiss(i)
  \/ \E i \in 1..NThreads : CallBody(i)
  \/ \E i \in 1..NThreads : Store(i)
  \/ \E i \in 1..NThreads : ScoreLocal(i)

SpecConc == InitConc /\ [][NextConc]_vars

(***************************************************************************)
(* Claims about concurrent invocations, checked under SpecConc.            *)
(***************************************************************************)
\* the score of the pair when nothing else runs: the uncached pipeline
score_alone(t1, t2) ==
  compute_cosine_similarity(calculate_word_frequency(preprocess_text(t1)),
                            calculate_word_frequency(preprocess_text(t2)))

\* C17: however the cache lookups and stores of concurrent invocations
\* interleave, each invocation returns the score its pair has when run
\* alone, every cache entry of a text holds the tokenization of that text,
\* and a store for a text that is already cached leaves one entry per text.
C17_Interleaving ==
  /\ \A i \in 1..NThreads :
       threads[i].pc = "done" =>
         threads[i].cosine_sim =
           score_alone(threads[i].original_text, threads[i].plagiarized_text)
  /\ \A k \in 1..Len(cache) : cache[k].val = preprocess_text(cache[k].key)
  /\ \A j, k \in 1..Len(cache) : cache[j].key = cache[k].key => j = k
  /\ Len(cache) <= maxsize

\* both invocations missed the same text and stored it one after the
\* other; both are done, and the third store evicted the oldest entry
C17_Witness ==
  /\ \A i \in 1..NThreads : threads[i].pc = "done"
  /\ threads[1].original_text = threads[2].plagiarized_text
  /\ threads[1].plagiarized_text # threads[2].original_text
  /\ misses = 4
  /\ hits = 0
  /\ Len(cache) = 2
  /\ ~cached(cache, make_key(threads[2].original_text))

(***************************************************************************)
(* SpecLRU: the cache at the capacity the decorator gives it.  Init is the *)
(* state after MAXSIZE - 1 or MAXSIZE calls with texts that all differ:    *)
(* every one of them was a miss, and the cache holds them oldest first.    *)
(* From there a few more calls are made, with cached texts from both ends  *)
(* of the order and with new ones.  calls records the text of every call.  *)
(***************************************************************************)
\* the i-th text of the first calls: '中' and the i-th ideograph after '一'
WarmText(i) == <<20013, 19968 + i>>

WarmCalls(n) == [i \in 1..n |-> WarmText(i)]

WarmCache(n) ==
  [i \in 1..n |-> [key |-> make_key(WarmText(i)),
                   val |-> preprocess_text(WarmText(i))]]

\* calls made after the first ones
MaxWarmCalls == 3

\* the oldest two and the newest of the first texts, and a new text ('我中')
LRUTexts == { WarmText(1), WarmText(2), WarmText(MAXSIZE), <<25105, 20013>> }

InitLRU ==
  \E n \in {MAXSIZE - 1, MAXSIZE} :
    /\ pc = "returned"
    /\ text = WarmText(n)
    /\ words = preprocess_text(WarmText(n))
    /\ cache = WarmCache(n)
    /\ outcome = "miss"
    /\ hits = 0
    /\ misses = n
    /\ freq1 = NoFreq
    /\ freq2 = NoFreq
    /\ score = NoScore
    /\ maxsize = MAXSIZE
    /\ IdleMain
    /\ calls = WarmCalls(n)

WarmHit(t) ==
  /\ hits + misses < MAXSIZE + MaxWarmCalls
  /\ Hit(t)
  /\ calls' = Append(calls, t)

WarmMiss(t) ==
  /\ hits + misses < MAXSIZE + MaxWarmCalls
  /\ Miss(t)
  /\ calls' = Append(calls, t)

NextLRU ==
  \/ \E t \in LRUTexts : WarmHit(t)
  \/ \E t \in LRUTexts : WarmMiss(t)

SpecLRU == InitLRU /\ [][NextLRU]_vars

(***************************************************************************)
(* Claims about the cache's capacity and eviction, checked under SpecLRU.  *)
(***************************************************************************)
\* the position of the latest call with text t (t was called with)
LastUse(h, t) == CHOOSE k \in 1..Len(h) : h[k] = t /\ \A j \in (k + 1)..Len(h) : h[j] # t

CacheKeys(c) == { c[k].key : k \in 1..Len(c) }

\* the cache holds at most 128 entries, one per key, every key the exact
\* text of a call, in the order of their latest use; and whatever text was
\* called with and is not cached was last used before every cached one
C19_State ==
  /\ maxsize = 128
  /\ Len(cache) <= 128
  /\ \A j, k \in 1..Len(cache) : cache[j].key = cache[k].key => j = k
  /\ \A k \in 1..Len(cache) : \E j \in 1..Len(calls) : calls[j] = cache[k].key
  /\ \A k \in 1..(Len(cache) - 1) :
       LastUse(calls, cache[k].key) < LastUse(calls, cache[k + 1].key)
  /\ \A j \in 1..Len(calls) :
       \/ calls[j] \in CacheKeys(cache)
       \/ /\ Len(cache) = 128
          /\ j < LastUse(calls, cache[1].key)

\* a call with a cached text returns the stored tuple and runs no
\* tokenization; a call with a new text runs one, and in a full cache it
\* replaces the key whose latest use is the oldest
C19_Step ==
  (calls' # calls) =>
    IF text' \in CacheKeys(cache)
    THEN /\ misses' = misses
         /\ hits' = hits + 1
         /\ words' = cache[cache_index(cache, text')].val
         /\ CacheKeys(cache') = CacheKeys(cache)
    ELSE /\ misses' = misses + 1
         /\ words' = preprocess_text(text')
         /\ IF Len(cache) = 128
            THEN \E e \in CacheKeys(cache) :
                   /\ CacheKeys(cache') = (CacheKeys(cache) \ {e}) \cup {text'}
                   /\ \A k \in CacheKeys(cache) \ {e} :
                        LastUse(calls, e) < LastUse(calls, k)
            ELSE CacheKeys(cache') = CacheKeys(cache) \cup {text'}

\* C19: after any sequence of calls the cache holds at most 128 entries,
\* each keyed by the exact text of a call; a new text put into a full cache
\* evicts the least recently used entry, and a text whose entry is cached
\* is not tokenized again.
C19_BoundedLRU == []C19_State /\ [][C19_Step]_vars

\* the oldest text was called again and so outlived the eviction that a
\* new text then caused: the second oldest is gone, the cache is full
C19_Witness ==
  /\ Len(cache) = 128
  /\ hits = 1
  /\ misses = 129
  /\ WarmText(1) \in CacheKeys(cache)
  /\ WarmText(2) \notin CacheKeys(cache)
  /\ text = <<25105, 20013>>
  /\ cache[128].val = << <<25105, 20013>> >>

(***************************************************************************)
(* SpecStages: one call of one stage, on the values main holds after the   *)
(* tokenizer returned: the cache has the entry of the text, words is the   *)
(* list main made of the cached tuple, and freq1 and freq2 are any two     *)
(* maps.  Each stage's action says what the call leaves of its arguments.  *)
(***************************************************************************)
\* '', 'no', '中我', 'no中我' and '中我中': zero, one, two and three tokens
StageTexts ==
  { <<>>, <<110, 111>>, <<20013, 25105>>, <<110, 111, 20013, 25105>>,
    <<20013, 25105, 20013>> }

InitStages ==
  /\ pc = "call"
  /\ text \in StageTexts
  /\ words = list(preprocess_text(text))
  /\ cache = <<[key |-> make_key(text), val |-> preprocess_text(text)]>>
  /\ outcome = "miss"
  /\ hits = 0
  /\ misses = 1
  /\ freq1 \in FreqMaps
  /\ freq2 \in FreqMaps
  /\ score = NoScore
  /\ maxsize = MAXSIZE
  /\ IdleMain
  /\ calls = NoCalls

NextStages ==
  \/ Vectorize
  \/ Cosine
  \/ Jaccard

SpecStages == InitStages /\ [][NextStages]_vars

Removed(c) == c \in PUNCTUATION \/ c \in WHITESPACE \/ IsLatin(c)

\* the characters the text loses in fact: a character whose lower-case form
\* is an ASCII letter goes with the letters
RemovedLowered(c) == c \in PUNCTUATION \/ c \in WHITESPACE \/ IsLatin(lowerChar(c))

\* positions i < j of t hold ideographs, and every character between them
\* is one the text loses by name
JoinedByName(t, i, j) ==
  /\ i < j
  /\ IsCJK(t[i])
  /\ IsCJK(t[j])
  /\ \A k \in (i + 1)..(j - 1) : Removed(t[k])

\* the same, with the characters the text loses in fact
Joined(t, i, j) ==
  /\ i < j
  /\ IsCJK(t[i])
  /\ IsCJK(t[j])
  /\ \A k \in (i + 1)..(j - 1) : RemovedLowered(t[k])

\* the character occurs in some token
InSomeToken(c) == \E k \in 1..Len(words) : \E i \in 1..Len(words[k]) : words[k][i] = c

\* C21 as stated: two ideographs separated only by listed punctuation,
\* whitespace or ASCII letters are emitted as a bigram; a bigram comes from
\* such a pair only, so a character between them that is neither removed nor
\* an ideograph prevents it, and that character appears in no token.
C21_JoinedAcrossListed ==
  Returned =>
    /\ \A i, j \in 1..Len(text) :
         JoinedByName(text, i, j) => <<text[i], text[j]>> \in Tokens(words)
    /\ \A k \in 1..Len(words) :
         IsCJKPair(words[k]) =>
           \E i, j \in 1..Len(text) :
             JoinedByName(text, i, j) /\ words[k] = <<text[i], text[j]>>
    /\ \A k \in 1..Len(text) :
         (~Removed(text[k]) /\ ~IsCJK(text[k])) => ~InSomeToken(text[k])

\* C21, amended: the bigrams of the output are exactly the pairs of
\* ideographs separated only by characters the text loses (listed
\* punctuation, whitespace, and characters whose lower-case form is an ASCII
\* letter) that are no stopword; any other character between two ideographs
\* prevents the pair and appears in no token.
C21_JoinedAcrossRemoved ==
  Returned =>
    /\ \A i, j \in 1..Len(text) :
         (Joined(text, i, j) /\ <<text[i], text[j]>> \notin STOPWORDS)
           => <<text[i], text[j]>> \in Tokens(words)
    /\ \A k \in 1..Len(words) :
         IsCJKPair(words[k]) =>
           /\ words[k] \notin STOPWORDS
           /\ \E i, j \in 1..Len(text) :
                Joined(text, i, j) /\ words[k] = <<text[i], text[j]>>
    /\ \A k \in 1..Len(text) :
         (~RemovedLowered(text[k]) /\ ~IsCJK(text[k])) => ~InSomeToken(text[k])

\* '中abc文' has given 'abc' and '中文'
C21_Witness ==
  /\ Returned
  /\ text = <<20013, 97, 98, 99, 25991>>
  /\ words = << <<97, 98, 99>>, <<20013, 25991>> >>

====
